---- MODULE Spec2Model ----
(***************************************************************************)
(* Model of cloud/smartos/smartos_image.py: one invocation of main() of    *)
(* the smartos_image module against a SmartOS host.  The host is the set   *)
(* of existing zpools and the local presence of the requested image; the   *)
(* module's state is the IMAGE object, the result dictionary, the out/err  *)
(* locals and the position of main().  Every run_command() is logged.      *)
(***************************************************************************)
EXTENDS Integers, Sequences, FiniteSets, TLC

VARIABLES
    uuid,        \* module.params['uuid'], a sequence of characters
    state,       \* module.params['state']
    zpool,       \* module.params['zpool']
    update,      \* IMAGE.update: the instance attribute set in __init__
    check_mode,  \* module.check_mode
    manifest,    \* IMAGE.manifest
    result,      \* main's result dictionary
    out,         \* main's local out
    err,         \* main's local err
    pc,          \* position of main()
    failure,     \* keyword arguments of module.fail_json, << >> if not called
    exception,   \* uncaught Python exception, "" if none
    pools,       \* host: the zpools that exist
    installed,   \* host: the image is locally present (in the pool asked for)
    was_local,   \* host: local presence when the invocation started
    calls        \* log of module.run_command invocations, oldest first

vars == <<uuid, state, zpool, update, check_mode, manifest, result, out, err,
          pc, failure, exception, pools, installed, was_local, calls>>

params == <<uuid, state, zpool, update, check_mode>>
host   == <<pools, installed, was_local>>

----------------------------------------------------------------------------
(* Bounds *)

\* exit codes of the external commands range over 0..MaxRc
MaxRc == 2
\* longest run of characters appended to a well-formed uuid
MaxTail == 1

----------------------------------------------------------------------------
(* Inputs *)

\* the uuid of the EXAMPLES section
ExampleUuid ==
    << "d", "1", "8", "3", "f", "5", "0", "0", "-", "9", "a", "9", "6", "-",
       "1", "1", "e", "6", "-", "8", "9", "7", "6", "-", "f", "f", "3", "9",
       "6", "7", "d", "c", "0", "2", "3", "a" >>

\* the docker-repo:tag form the DOCUMENTATION mentions
DockerTag == << "b", "u", "s", "y", "b", "o", "x", ":", "l", "a", "t", "e", "s", "t" >>

\* characters used to damage a well-formed uuid
DamageChars == { "0", "b", "g", "A", "-", "\n", " " }

Tails == UNION { [1..n -> DamageChars] : n \in 1..MaxTail }

UuidInputs ==
    { ExampleUuid, DockerTag }
    \cup { [ExampleUuid EXCEPT ![i] = c] : i \in 1..Len(ExampleUuid), c \in DamageChars }
    \cup { ExampleUuid \o t : t \in Tails }
    \cup { <<c>> \o ExampleUuid : c \in DamageChars }
    \cup { SubSeq(ExampleUuid, 1, n) : n \in 0..(Len(ExampleUuid) - 1) }

States     == { "present", "absent" }
ZpoolNames == { "zones", "newpool", "" }
HostPools  == { "zones", "newpool" }

----------------------------------------------------------------------------
(* IMAGE.UUID_REGEX and has_valid_uuid *)

HexLower == { "a", "b", "c", "d", "e", "f",
              "0", "1", "2", "3", "4", "5", "6", "7", "8", "9" }

\* positions of the hyphens in [a-f0-9]{8}-([a-f0-9]{4}-){3}[a-f0-9]{12}
HyphenAt == { 9, 14, 19, 24 }

\* number of characters the body of UUID_REGEX consumes
BodyLen == 36

\* the body of the pattern matches the first BodyLen characters of u
MatchesBody(u) ==
    /\ Len(u) >= BodyLen
    /\ \A i \in 1..BodyLen :
          IF i \in HyphenAt THEN u[i] = "-" ELSE u[i] \in HexLower

\* Python's "$" (no re.MULTILINE) after n consumed characters: at the end of
\* the string, or just before a newline that is the last character
DollarAt(u, n) ==
    \/ n = Len(u)
    \/ n + 1 = Len(u) /\ u[n + 1] = "\n"

\* re.match(UUID_REGEX, uuid) is not None
has_valid_uuid(u) == MatchesBody(u) /\ DollarAt(u, BodyLen)

\* the canonical hyphenated 32-hex-digit form: 8-4-4-4-12, nothing else
IsCanonicalUuid(u) ==
    /\ Len(u) = 36
    /\ \A i \in 1..36 :
          IF i \in { 9, 14, 19, 24 } THEN u[i] = "-" ELSE u[i] \in HexLower

----------------------------------------------------------------------------
(* External commands *)

\* dict[key] = value
Put(d, key, value) == (key :> value) @@ d

\* the -P <zpool> arguments, added only if zpool is non-empty
PoolArgs(z) == IF z # "" THEN << "-P", z >> ELSE << >>

\* argument vectors built by the IMAGE methods
InfoCmd(z, u)   == << "imgadm", "info" >> \o PoolArgs(z) \o << u >>
ImportCmd(z, u) == << "imgadm", "import" >> \o PoolArgs(z) \o << u >>
DeleteCmd(z, u) == << "imgadm", "delete" >> \o PoolArgs(z) \o << u >>
UpdateCmd(u)    == << "imgadm", "update", u >>
ZpoolCmd(z)     == << "zpool", "list", z >>

\* the streams a command run captures
Stdout(op, rc) == << op, "stdout", rc >>
Stderr(op, rc) == << op, "stderr", rc >>

\* one entry of the run_command log
Call(op, argv, rc) ==
    [ op |-> op, argv |-> argv, rc |-> rc,
      stdout |-> Stdout(op, rc), stderr |-> Stderr(op, rc) ]

\* the manifest "imgadm info" prints for a locally present image
InfoManifest(u) == [ name |-> "debian-8", uuid |-> u ]

\* self.manifest = 'init': the string, as a JSON value comparable with the
\* manifest documents
InitManifest == [ str |-> "init" ]

\* json.loads('{ "faked": "True", "reason": "check_mode" }')
FakedManifest == [ faked |-> "True", reason |-> "check_mode" ]

\* exit code of "imgadm info": 0 iff the image is locally present
InfoRc(present) == IF present THEN 0 ELSE 1

\* exit code of "zpool list <zpool>": 0 iff the pool exists
ZpoolRc(z, ps) == IF z \in ps THEN 0 ELSE 1

----------------------------------------------------------------------------
(* Messages *)

MsgInvalidUuid == "Invalid image UUID."
MsgNoZpool     == "zpool is not available."
MsgImport      == "Error importing image!"
MsgUpdate      == "Error updating image!"
MsgDelete      == "Error deleting image!"

AlreadyInstalledOut(u, m) ==
    << "Image ", u, " (", m.name, ") is already installed, skipping." >>
DownloadOut == << "have to download image" >>
NotFoundOut(u, z) ==
    << "Image \"", u, "\" was not found on zpool \"", z, "\"." >>

\* module.fail_json(msg, uuid, zpool)
FailPlain(msg) == [ msg |-> msg, uuid |-> uuid, zpool |-> zpool ]

\* module.fail_json(msg, uuid, zpool, rc, stderr, stdout)
FailCmd(msg, rc, o, e) ==
    [ msg |-> msg, uuid |-> uuid, zpool |-> zpool,
      rc |-> rc, stderr |-> e, stdout |-> o ]

----------------------------------------------------------------------------
(* Initial state: IMAGE(module) constructed, result/out/err initialised *)

Init ==
    /\ uuid \in UuidInputs
    /\ state \in States
    /\ zpool \in ZpoolNames
    /\ update \in BOOLEAN
    /\ check_mode \in BOOLEAN
    /\ manifest = InitManifest
    /\ result = [ changed |-> FALSE ]
    /\ out = << >>
    /\ err = << >>
    /\ pc = "check_uuid"
    /\ failure = << >>
    /\ exception = ""
    /\ pools \in SUBSET HostPools
    /\ installed \in BOOLEAN
    /\ was_local = installed
    /\ calls = << >>

----------------------------------------------------------------------------
(* main() *)

\* if not image.has_valid_uuid(): module.fail_json(...)
ValidateUuid ==
    /\ pc = "check_uuid"
    /\ IF ~has_valid_uuid(uuid)
         THEN /\ failure' = FailPlain(MsgInvalidUuid)
              /\ pc' = "failed"
         ELSE /\ failure' = failure
              /\ pc' = "check_zpool"
    /\ UNCHANGED <<params, host, manifest, result, out, err, exception, calls>>

\* a bug that ignores the exit code of zpool list
ValidateZpoolIgnoresRc ==
    /\ pc = "check_zpool"
    /\ calls' = Append(calls, Call("zpool list", ZpoolCmd(zpool), ZpoolRc(zpool, pools)))
    /\ pc' = state
    /\ UNCHANGED <<params, host, manifest, result, out, err, failure, exception>>

\* if not image.zpool_exists(): module.fail_json(...)
ValidateZpool ==
    /\ pc = "check_zpool"
    /\ LET rc == ZpoolRc(zpool, pools) IN
         /\ calls' = Append(calls, Call("zpool list", ZpoolCmd(zpool), rc))
         /\ IF rc # 0
              THEN /\ failure' = FailPlain(MsgNoZpool)
                   /\ pc' = "failed"
              ELSE /\ failure' = failure
                   /\ pc' = state
    /\ UNCHANGED <<params, host, manifest, result, out, err, exception>>

\* IMAGE.is_local(): the return value of the "imgadm info" probe
is_local == InfoRc(installed) = 0

\* IMAGE.is_local(): the run_command it performs
IsLocalCall == Call("imgadm info", InfoCmd(zpool, uuid), InfoRc(installed))

\* IMAGE.is_local(): self.manifest after the probe
IsLocalManifest == IF is_local THEN InfoManifest(uuid) ELSE manifest

\* a bug that reports the change but attaches no placeholder manifest
PresentCheckModeNoManifest ==
    /\ pc = "present"
    /\ check_mode
    /\ calls' = Append(calls, IsLocalCall)
    /\ manifest' = IsLocalManifest
    /\ IF is_local
         THEN /\ out' = AlreadyInstalledOut(uuid, manifest')
              /\ result' = result
         ELSE /\ result' = Put(result, "changed", TRUE)
              /\ out' = DownloadOut
    /\ pc' = "finalize"
    /\ UNCHANGED <<params, host, err, failure, exception>>

\* state == 'present', module.check_mode
PresentCheckMode ==
    /\ pc = "present"
    /\ check_mode
    /\ calls' = Append(calls, IsLocalCall)
    /\ manifest' = IsLocalManifest
    /\ IF is_local
         THEN /\ out' = AlreadyInstalledOut(uuid, manifest')
              /\ result' = result
         ELSE /\ result' = Put(Put(result, "changed", TRUE), "manifest", FakedManifest)
              /\ out' = DownloadOut
    /\ pc' = "finalize"
    /\ UNCHANGED <<params, host, err, failure, exception>>

\* state == 'present', not module.check_mode: image.import_image()
PresentImport ==
    /\ pc = "present"
    /\ ~check_mode
    /\ \E rc \in 0..MaxRc :
         /\ calls' = Append(calls, Call("imgadm import", ImportCmd(zpool, uuid), rc))
         /\ out' = Stdout("imgadm import", rc)
         /\ err' = Stderr("imgadm import", rc)
         /\ installed' = IF rc = 0 THEN TRUE ELSE installed
         /\ IF rc # 0
              THEN /\ failure' = FailCmd(MsgImport, rc, out', err')
                   /\ pc' = "failed"
              ELSE /\ failure' = failure
                   /\ pc' = IF update THEN "update" ELSE "finalize"
    /\ UNCHANGED <<params, pools, was_local, manifest, result, exception>>

\* if image.update: image.update() -- the attribute set in __init__ hides
\* the method, so the call applies a bool and raises TypeError
PresentUpdate ==
    /\ pc = "update"
    /\ exception' = "TypeError"
    /\ pc' = "crashed"
    /\ UNCHANGED <<params, host, manifest, result, out, err, failure, calls>>

\* a bug that deletes without looking at module.check_mode
AbsentProbeDeletesInCheckMode ==
    /\ pc = "absent"
    /\ calls' = Append(calls, IsLocalCall)
    /\ manifest' = IsLocalManifest
    /\ IF is_local
         THEN /\ result' = Put(result, "changed", TRUE)
              /\ out' = out
              /\ pc' = "delete"
         ELSE /\ result' = result
              /\ out' = NotFoundOut(uuid, zpool)
              /\ pc' = "finalize"
    /\ UNCHANGED <<params, host, err, failure, exception>>

\* a bug that reports a change whether or not the image is local
AbsentProbeAlwaysChanged ==
    /\ pc = "absent"
    /\ calls' = Append(calls, IsLocalCall)
    /\ manifest' = IsLocalManifest
    /\ result' = Put(result, "changed", TRUE)
    /\ IF is_local
         THEN /\ out' = out
              /\ pc' = IF ~check_mode THEN "delete" ELSE "finalize"
         ELSE /\ out' = NotFoundOut(uuid, zpool)
              /\ pc' = "finalize"
    /\ UNCHANGED <<params, host, err, failure, exception>>

\* state == 'absent': image.is_local()
AbsentProbe ==
    /\ pc = "absent"
    /\ calls' = Append(calls, IsLocalCall)
    /\ manifest' = IsLocalManifest
    /\ IF is_local
         THEN /\ result' = Put(result, "changed", TRUE)
              /\ out' = out
              /\ pc' = IF ~check_mode THEN "delete" ELSE "finalize"
         ELSE /\ result' = result
              /\ out' = NotFoundOut(uuid, zpool)
              /\ pc' = "finalize"
    /\ UNCHANGED <<params, host, err, failure, exception>>

\* a bug that carries on after a failed delete
AbsentDeleteContinues ==
    /\ pc = "delete"
    /\ \E rc \in 0..MaxRc :
         /\ calls' = Append(calls, Call("imgadm delete", DeleteCmd(zpool, uuid), rc))
         /\ out' = Stdout("imgadm delete", rc)
         /\ err' = Stderr("imgadm delete", rc)
         /\ installed' = IF rc = 0 THEN FALSE ELSE installed
         /\ failure' = failure
         /\ pc' = "finalize"
    /\ UNCHANGED <<params, pools, was_local, manifest, result, exception>>

\* state == 'absent', image local, not module.check_mode: image.delete()
AbsentDelete ==
    /\ pc = "delete"
    /\ \E rc \in 0..MaxRc :
         /\ calls' = Append(calls, Call("imgadm delete", DeleteCmd(zpool, uuid), rc))
         /\ out' = Stdout("imgadm delete", rc)
         /\ err' = Stderr("imgadm delete", rc)
         /\ installed' = IF rc = 0 THEN FALSE ELSE installed
         /\ IF rc # 0
              THEN /\ failure' = FailCmd(MsgDelete, rc, out', err')
                   /\ pc' = "failed"
              ELSE /\ failure' = failure
                   /\ pc' = "finalize"
    /\ UNCHANGED <<params, pools, was_local, manifest, result, exception>>

\* the fields main always sets before the final probe
Finalized(r) ==
    Put(Put(Put(Put(Put(r, "stdout", out), "stderr", err),
            "uuid", uuid), "state", state), "zpool", zpool)

\* a bug that attaches image.manifest without the final probe's verdict
FinalizeAlwaysManifest ==
    /\ pc = "finalize"
    /\ calls' = Append(calls, IsLocalCall)
    /\ manifest' = IsLocalManifest
    /\ result' = Put(Finalized(result), "manifest", manifest')
    /\ pc' = "done"
    /\ UNCHANGED <<params, host, out, err, failure, exception>>

\* result[...] = ...; if image.is_local(): ...; module.exit_json(**result)
Finalize ==
    /\ pc = "finalize"
    /\ calls' = Append(calls, IsLocalCall)
    /\ manifest' = IsLocalManifest
    /\ result' = IF is_local
                   THEN Put(Finalized(result), "manifest", manifest')
                   ELSE Finalized(result)
    /\ pc' = "done"
    /\ UNCHANGED <<params, host, out, err, failure, exception>>

Next ==
    \/ ValidateUuid
    \/ ValidateZpool
    \/ PresentCheckMode
    \/ PresentImport
    \/ PresentUpdate
    \/ AbsentProbe
    \/ AbsentDelete
    \/ Finalize

Spec == Init /\ [][Next]_vars

----------------------------------------------------------------------------
(* Vocabulary of the properties *)

\* main() has ended: exit_json, fail_json or an uncaught exception
Terminal == pc \in { "done", "failed", "crashed" }

\* the invocation failed with this fail_json message
FailedWith(msg) == pc = "failed" /\ failure.msg = msg

\* positions in the log of the runs of one command
CallsOf(op) == { i \in 1..Len(calls) : calls[i].op = op }

\* the commands whose non-zero exit is fatal
SubOps == { "zpool list", "imgadm import", "imgadm update", "imgadm delete" }

\* the commands that act on the image store
ImageOps == { "imgadm info", "imgadm import", "imgadm update", "imgadm delete" }

\* the commands that change the image store
MutatingOps == { "imgadm import", "imgadm update", "imgadm delete" }

NoCallOf(ops) == \A i \in 1..Len(calls) : calls[i].op \notin ops

\* both input validations passed
Validated == has_valid_uuid(uuid) /\ zpool \in pools

\* the import ran and exited 0
ImportSucceeded == \E i \in CallsOf("imgadm import") : calls[i].rc = 0

----------------------------------------------------------------------------
(* C1 *)

\* C1 (as stated): a non-dry-run state=present invocation whose import exits
\* 0 and that returns a result reports changed=true exactly when the image
\* was not local before (it is local afterwards), with the manifest of the
\* post-import probe attached, and changed=false when it was local already.
C1_ChangedReflectsTransition ==
    (pc = "done" /\ ~check_mode /\ state = "present" /\ ImportSucceeded) =>
        /\ result.changed = (~was_local /\ installed)
        /\ "manifest" \in DOMAIN result
        /\ result.manifest = InfoManifest(uuid)

----------------------------------------------------------------------------
(* C2 *)

\* C2 (as stated): non-dry-run, state=present, update=true, import exited 0:
\* when the invocation has ended, imgadm update ran exactly once, after the
\* import, and the invocation either failed with 'Error updating image!'
\* (update exited non-zero) or returned a normal result.  With update=false
\* or state=absent imgadm update never runs.
C2_UpdateInvokedOnce ==
    /\ (Terminal /\ ~check_mode /\ state = "present" /\ update /\ ImportSucceeded) =>
          /\ Cardinality(CallsOf("imgadm update")) = 1
          /\ \A i \in CallsOf("imgadm update") :
                /\ \E j \in CallsOf("imgadm import") : j < i
                /\ IF calls[i].rc # 0 THEN FailedWith(MsgUpdate) ELSE pc = "done"
    /\ (~update \/ state = "absent") => NoCallOf({ "imgadm update" })

----------------------------------------------------------------------------
(* C3 *)

\* C3 (as stated): when the pool asked for does not exist, so that zpool list
\* exits non-zero for it, the invocation ends in PoolNotFound whatever the
\* state and whether or not the uuid is valid, with no image-level command
\* run before.
C3_PoolNotFoundAnyUuid ==
    (Terminal /\ zpool \notin pools) =>
        /\ FailedWith(MsgNoZpool)
        /\ NoCallOf(ImageOps)

\* C3 (amended): the pool is queried only after the uuid passed validation.
\* For a uuid that passes, a pool query that exits non-zero ends the
\* invocation in PoolNotFound for either state, and the pool query is the
\* only command that ran.  For a uuid that does not pass, the invocation ends
\* in InvalidInput and the pool is never queried.
C3_PoolNotFoundAfterUuidCheck ==
    /\ (Terminal /\ has_valid_uuid(uuid) /\ zpool \notin pools) =>
          /\ FailedWith(MsgNoZpool)
          /\ Len(calls) = 1
          /\ calls[1].op = "zpool list" /\ calls[1].rc # 0
    /\ (\E i \in CallsOf("zpool list") : calls[i].rc # 0) =>
          /\ FailedWith(MsgNoZpool)
          /\ NoCallOf(ImageOps)
    /\ (Terminal /\ ~has_valid_uuid(uuid)) =>
          /\ FailedWith(MsgInvalidUuid)
          /\ calls = << >>

\* a PoolNotFound failure for state=absent with the image local
C3_Witness ==
    /\ FailedWith(MsgNoZpool)
    /\ state = "absent" /\ installed
    /\ Len(calls) = 1

----------------------------------------------------------------------------
(* C4 *)

\* C4 (as stated): every uuid that is not of the canonical form fails with
\* InvalidInput as soon as it is checked, with no command run at all,
\* whatever state, zpool, update and check_mode are.
C4_NonCanonicalRejected ==
    (~IsCanonicalUuid(uuid) /\ pc # "check_uuid") =>
        /\ FailedWith(MsgInvalidUuid)
        /\ calls = << >>

----------------------------------------------------------------------------
(* C5 *)

\* C5: dry run, state=present, image not local: no import, update or delete
\* is ever run; once validation has passed the invocation ends with a
\* result, and that result has changed=true and the placeholder manifest
\* tagged faked / check_mode -- for either value of update.
C5_DryRunPresent ==
    (check_mode /\ state = "present" /\ ~was_local) =>
        /\ NoCallOf(MutatingOps)
        /\ ~installed
        /\ (Terminal /\ Validated) => pc = "done"
        /\ pc = "done" =>
              /\ result.changed
              /\ "manifest" \in DOMAIN result
              /\ result.manifest = FakedManifest
              /\ result.manifest.faked = "True"
              /\ result.manifest.reason = "check_mode"

\* a dry run for an absent image, update set, has returned its result
C5_Witness ==
    /\ pc = "done" /\ check_mode /\ state = "present" /\ ~was_local /\ update
    /\ result.changed

----------------------------------------------------------------------------
(* C6 *)

\* C6: dry run, state=absent, image local: delete is never run, the image
\* stays local, and once validation has passed the invocation ends with a
\* result that has changed=true.
C6_DryRunAbsent ==
    (check_mode /\ state = "absent" /\ was_local) =>
        /\ NoCallOf({ "imgadm delete" })
        /\ installed
        /\ (Terminal /\ Validated) => pc = "done"
        /\ pc = "done" => result.changed

\* a dry run has reported the pending removal of a local image
C6_Witness ==
    /\ pc = "done" /\ check_mode /\ state = "absent" /\ was_local
    /\ result.changed /\ installed

----------------------------------------------------------------------------
(* C7 *)

\* C7: state=absent, image not local, dry run or not: delete is never run,
\* and once validation has passed the invocation ends with a result that has
\* changed=false, the not-found message naming the uuid and the zpool as
\* stdout, and no manifest field.
C7_AbsentAlreadyAbsent ==
    (state = "absent" /\ ~was_local) =>
        /\ NoCallOf({ "imgadm delete" })
        /\ (Terminal /\ Validated) => pc = "done"
        /\ pc = "done" =>
              /\ ~result.changed
              /\ Len(result.stdout) = 5
              /\ result.stdout[2] = uuid
              /\ result.stdout[4] = zpool
              /\ result.stdout = NotFoundOut(uuid, zpool)
              /\ "manifest" \notin DOMAIN result

\* an absent image asked absent, outside dry run, has returned its result
C7_Witness ==
    /\ pc = "done" /\ state = "absent" /\ ~was_local /\ ~check_mode
    /\ ~result.changed

----------------------------------------------------------------------------
(* C8 *)

AlwaysReturned == { "changed", "stdout", "stderr", "uuid", "state", "zpool" }

----------------------------------------------------------------------------
(* C9 *)

\* C9 (as stated): every fatal end of the invocation carries a message, the
\* uuid and the zpool, and when a pool query, import, update or delete
\* exited non-zero the error also carries that command's exit code and both
\* of its streams.
C9_ErrorsCarryContext ==
    /\ pc # "crashed"
    /\ pc = "failed" =>
          /\ { "msg", "uuid", "zpool" } \subseteq DOMAIN failure
          /\ failure.uuid = uuid /\ failure.zpool = zpool
    /\ \A i \in 1..Len(calls) :
          (calls[i].op \in SubOps /\ calls[i].rc # 0) =>
              /\ pc = "failed"
              /\ { "rc", "stdout", "stderr" } \subseteq DOMAIN failure
              /\ failure.rc = calls[i].rc
              /\ failure.stdout = calls[i].stdout
              /\ failure.stderr = calls[i].stderr

----------------------------------------------------------------------------
(* C10 *)

\* C10: a pool query, import, update or delete that exits non-zero is the
\* last command of the invocation: the invocation has failed with that
\* command's error, nothing ran after it (no retry, update, delete or final
\* probe), a successful import is not undone, and no result is returned.
\* Import, update and delete each run at most once.
C10_FailFast ==
    /\ \A i \in 1..Len(calls) :
          (calls[i].op \in SubOps /\ calls[i].rc # 0) =>
              /\ i = Len(calls)
              /\ pc = "failed"
              /\ failure.msg =
                    CASE calls[i].op = "zpool list"    -> MsgNoZpool
                      [] calls[i].op = "imgadm import" -> MsgImport
                      [] calls[i].op = "imgadm update" -> MsgUpdate
                      [] calls[i].op = "imgadm delete" -> MsgDelete
              /\ AlwaysReturned \cap DOMAIN result = { "changed" }
    /\ \A op \in MutatingOps : Cardinality(CallsOf(op)) <= 1
    /\ ImportSucceeded => installed

\* a failed delete of a local image ended the invocation
C10_Witness ==
    /\ FailedWith(MsgDelete)
    /\ Len(calls) = 3
    /\ calls[3].op = "imgadm delete" /\ calls[3].rc # 0
    /\ installed

====
